---- MODULE Spec2Model ----
(***************************************************************************)
(* Model of TotalsNewService (packages/medusa, totals computation engine): *)
(* line-item totals, line-item refunds, gift-card transaction totals and   *)
(* shipping-method totals, each with its current (per tax line) and legacy *)
(* (flat taxRate) variant, and the two batch entry points.                 *)
(*                                                                         *)
(* Numbers. Prices, quantities and discounts are integers (minor currency  *)
(* units). The legacy line-item path and the gift-card fold multiply by    *)
(* taxRate / 100 without rounding, so every monetary field of a totals     *)
(* record is kept in hundredths of a minor unit (the value times Scale),   *)
(* which makes those products exact. Refund amounts are always rounded by  *)
(* the code and are kept unscaled. Floating-point error is not modelled.   *)
(***************************************************************************)
EXTENDS Integers, Sequences, FiniteSets, TLC

\* The field names of the records of the model. TLC keeps a record's fields in the
\* order in which their names first occur in the module: they are named here once,
\* and every record below is written with its fields in this order.
FieldNames == DOMAIN [allocation_map |-> {}, amount |-> {}, calculationContext |-> {}, discount_total |-> {}, discounts |-> {}, error |-> {}, giftCardTransactions |-> {}, gift_cards_taxable |-> {}, id |-> {}, includeTax |-> {}, includes_tax |-> {}, is_taxable |-> {}, item |-> {}, items |-> {}, lineItem |-> {}, lineItemAllocation |-> {}, op |-> {}, original_tax_total |-> {}, original_total |-> {}, price |-> {}, quantity |-> {}, rate |-> {}, region |-> {}, shippingMethod |-> {}, shippingMethods |-> {}, status |-> {}, subtotal |-> {}, taxLines |-> {}, taxRate |-> {}, tax_lines |-> {}, tax_rate |-> {}, tax_total |-> {}, total |-> {}, unit_price |-> {}, useExistingTaxLines |-> {}, value |-> {}]

VARIABLES flag, strategy, pc, call, calculationMethod, taxLinesMap, idx, totalsAcc, providerCalls, result

vars == <<flag, strategy, pc, call, calculationMethod, taxLinesMap, idx, totalsAcc, providerCalls, result>>

\* ---------------------------------------------------------------- bounds
MaxQuantity == 2
MaxTaxLines == 2
MaxItems == 2
MaxTransactions == 2

\* taxRate / 100, rate / 100: the percentage scale of every rate
Scale == 100

\* ---------------------------------------------------------------- values
\* An optional value (undefined / null or a value): <<>> or <<v>>.
None == <<>>
Some(v) == <<v>>
Val(o) == o[1]

\* utils isDefined(val): val is not undefined
isDefined(o) == Len(o) > 0

\* The result of Math.round(price * (undefined / 100)): not a number.
NaN == -1000000000

\* IEEE arithmetic and comparison as far as NaN is concerned.
JsAdd(a, b) == IF a = NaN \/ b = NaN THEN NaN ELSE a + b
JsEq(a, b) == a # NaN /\ b # NaN /\ a = b

\* Math.round(n / d) for d > 0: floor(n / d + 1/2)
Round(n, d) == (2 * n + d) \div (2 * d)

RECURSIVE SumSeq(_)
SumSeq(s) == IF s = <<>> THEN 0 ELSE Head(s) + SumSeq(Tail(s))

\* ---------------------------------------------------------------- inputs
Prices == {150, 1100}
Quantities == 1..MaxQuantity
\* percentages: taxRate argument, region.tax_rate, transaction tax_rate
TaxRates == {0, 10}
\* allocation.discount.unit_amount (0: no discount allocated to the item)
DiscountUnitAmounts == {0, 100}
\* amounts the tax calculation strategy may answer
TaxAmounts == {0, 100}

\* tax lines: the k-th line of a list carries rate 5 * k
TaxLineLists == {[k \in 1..n |-> [rate |-> 5 * k]] : n \in 0..MaxTaxLines}
OptTaxLines == {None} \cup {Some(l) : l \in TaxLineLists}

OptTaxRates == {None} \cup {Some(r) : r \in TaxRates}

\* what the tax line provider may answer for one entity
ProviderTaxLines == {None} \cup {Some(l) : l \in {t \in TaxLineLists : Len(t) <= 1}}

\* gift cards: region.tax_rate and the rate recorded on a transaction differ
Regions == [gift_cards_taxable : BOOLEAN, tax_rate : {10}]
OptRegions == {None} \cup {Some(r) : r \in Regions}
GiftCardTransactions == [amount : {1000}, is_taxable : {"true", "false", "null"}, tax_rate : {None, Some(20)}]

\* the entities of a batch are copies of one template (ids 1..n)
BatchLineItems == [id : {0}, includes_tax : BOOLEAN, quantity : {1}, tax_lines : ProviderTaxLines, unit_price : {1100}]
BatchShippingMethods == [id : {0}, includes_tax : BOOLEAN, price : {1100}, tax_lines : ProviderTaxLines]

LineItems(id) == [id : {id}, includes_tax : BOOLEAN, quantity : Quantities, tax_lines : OptTaxLines, unit_price : Prices]
ShippingMethods(id) == [id : {id}, includes_tax : BOOLEAN, price : Prices, tax_lines : OptTaxLines]

\* calculationContext.allocation_map: item id -> discount unit_amount
AllocationMap(ids, a) == IF a = 0 THEN <<>> ELSE [i \in ids |-> a]
Context(ids, a) == [allocation_map |-> AllocationMap(ids, a)]

\* discounts: the rule types of the supplied discount set (None: no set supplied)
DiscountSets == {None, Some({"percentage"}), Some({"percentage", "free_shipping"})}

\* ---------------------------------------------------------------- errors
MissingTaxLines == "Tax Lines must be joined to calculate taxes"
MissingTaxLinesOnRefund == "Cannot compute line item refund amount, tax lines are missing from the line item"

Ok(v) == [status |-> "ok", value |-> v]
Throw(e) == [error |-> e, status |-> "error"]
NoResult == [status |-> "none"]

\* ------------------------------------------------- consumed capabilities
\* featureFlagRouter_.isFeatureEnabled(TaxInclusivePricingFeatureFlag.key)
isFeatureEnabled == flag

\* allocation_map[id]?.discount?.unit_amount || 0
unitAmount(calculationContext, id) == IF id \in DOMAIN calculationContext.allocation_map THEN calculationContext.allocation_map[id] ELSE 0

\* taxCalculationStrategy_.calculate(items, taxLines, context): a deterministic
\* strategy, any amount; it may tell a context that carries discount allocations
\* from one that does not.
calculate(items, taxLines, calculationContext) == strategy[DOMAIN calculationContext.allocation_map # {}]

\* utils calculatePriceTaxAmount({price, taxRate, includesTax}), taxRate given as a
\* percentage: the amount as a fraction <<numerator, denominator>>.
calculatePriceTaxAmount(price, ratePct, includesTax) == IF includesTax THEN <<ratePct * price, Scale + ratePct>> ELSE <<price * ratePct, Scale>>

RoundFrac(f) == Round(f[1], f[2])

\* ------------------------------------------------------ line-item totals
LineItemTotals(item, subtotal, discount_total, total, original_total, original_tax_total, tax_total, tax_lines) == [discount_total |-> discount_total, original_tax_total |-> original_tax_total, original_total |-> original_total, quantity |-> item.quantity, subtotal |-> subtotal, tax_lines |-> tax_lines, tax_total |-> tax_total, total |-> total, unit_price |-> item.unit_price]

\* getLineItemTotals without "totals.total += totals.subtotal" (line 266)
getLineItemTotals_totalMissesSubtotal(item, includeTax, lineItemAllocation, taxLines, calculationContext) ==
  LET includes == isFeatureEnabled /\ item.includes_tax
      subtotal0 == IF includes THEN 0 ELSE item.unit_price * item.quantity
      discount_total == lineItemAllocation * item.quantity
      tax_lines == IF isDefined(taxLines) THEN Val(taxLines) ELSE IF isDefined(item.tax_lines) THEN Val(item.tax_lines) ELSE <<>>
      tax_total == calculate(<<item>>, tax_lines, calculationContext)
      original_tax_total == calculate(<<item>>, tax_lines, [calculationContext EXCEPT !.allocation_map = <<>>])
      subtotal1 == IF includes THEN subtotal0 + (item.unit_price * item.quantity - original_tax_total) ELSE subtotal0
      total1 == subtotal0 - discount_total
      original_total1 == IF includes THEN subtotal0 + subtotal1 ELSE subtotal0
  IN  IF includeTax /\ Len(tax_lines) = 0
        THEN Throw(MissingTaxLines)
        ELSE IF Len(tax_lines) > 0
          THEN Ok(LineItemTotals(item, Scale * subtotal1, Scale * discount_total, Scale * (total1 + tax_total), Scale * (original_total1 + original_tax_total), Scale * original_tax_total, Scale * tax_total, Some(tax_lines)))
          ELSE Ok(LineItemTotals(item, Scale * subtotal0, Scale * discount_total, Scale * (subtotal0 - discount_total), Scale * subtotal0, 0, 0, Some(tax_lines)))

getLineItemTotals(item, includeTax, lineItemAllocation, taxLines, calculationContext) ==
  LET includes == isFeatureEnabled /\ item.includes_tax
      subtotal0 == IF includes THEN 0 ELSE item.unit_price * item.quantity
      discount_total == lineItemAllocation * item.quantity
      tax_lines == IF isDefined(taxLines) THEN Val(taxLines) ELSE IF isDefined(item.tax_lines) THEN Val(item.tax_lines) ELSE <<>>
      tax_total == calculate(<<item>>, tax_lines, calculationContext)
      original_tax_total == calculate(<<item>>, tax_lines, [calculationContext EXCEPT !.allocation_map = <<>>])
      subtotal1 == IF includes THEN subtotal0 + (item.unit_price * item.quantity - original_tax_total) ELSE subtotal0
      total1 == IF includes THEN (subtotal0 - discount_total) + subtotal1 ELSE subtotal0 - discount_total
      original_total1 == IF includes THEN subtotal0 + subtotal1 ELSE subtotal0
  IN  IF includeTax /\ Len(tax_lines) = 0
        THEN Throw(MissingTaxLines)
        ELSE IF Len(tax_lines) > 0
          THEN Ok(LineItemTotals(item, Scale * subtotal1, Scale * discount_total, Scale * (total1 + tax_total), Scale * (original_total1 + original_tax_total), Scale * original_tax_total, Scale * tax_total, Some(tax_lines)))
          ELSE Ok(LineItemTotals(item, Scale * subtotal0, Scale * discount_total, Scale * (subtotal0 - discount_total), Scale * subtotal0, 0, 0, Some(tax_lines)))

getLineItemTotalsLegacy(item, taxRate, lineItemAllocation, calculationContext) ==
  LET subtotal0 == IF isFeatureEnabled /\ item.includes_tax THEN 0 ELSE item.unit_price * item.quantity
      discount_total == lineItemAllocation * item.quantity
      includesTax == isFeatureEnabled /\ item.includes_tax
      taxIncludedInPrice == IF ~item.includes_tax THEN 0 ELSE RoundFrac(calculatePriceTaxAmount(item.unit_price, taxRate, includesTax))
      subtotal == (item.unit_price - taxIncludedInPrice) * item.quantity
      original_tax_total == subtotal * taxRate
      tax_total == (subtotal - discount_total) * taxRate
  IN  Ok(LineItemTotals(item, Scale * subtotal, Scale * discount_total, Scale * subtotal + tax_total, Scale * subtotal0 + original_tax_total, original_tax_total, tax_total, item.tax_lines))

\* ------------------------------------------------------ line-item refund
getLineItemRefundLegacy(lineItem, calculationContext, taxRate) ==
  LET includesTax == isFeatureEnabled /\ lineItem.includes_tax
      taxAmountIncludedInPrice == IF ~includesTax THEN 0 ELSE RoundFrac(calculatePriceTaxAmount(lineItem.unit_price, taxRate, includesTax))
      discountAmount == unitAmount(calculationContext, lineItem.id) * lineItem.quantity
      lineSubtotal == (lineItem.unit_price - taxAmountIncludedInPrice) * lineItem.quantity - discountAmount
  IN  Ok(Round(lineSubtotal * (Scale + taxRate), Scale))

\* the branch of getLineItemRefund: taxRate != null
refundMethod(taxRate) == IF isDefined(taxRate) THEN "legacy" ELSE "current"

\* getLineItemRefund taking empty tax lines for missing ones (line 386)
getLineItemRefund_emptyIsMissing(lineItem, calculationContext, taxRate) ==
  IF refundMethod(taxRate) = "legacy"
    THEN getLineItemRefundLegacy(lineItem, calculationContext, Val(taxRate))
    ELSE
      LET includesTax == isFeatureEnabled /\ lineItem.includes_tax
          discountAmount == unitAmount(calculationContext, lineItem.id) * lineItem.quantity
          lines == Val(lineItem.tax_lines)
          totalTaxRate == SumSeq([k \in 1..Len(lines) |-> lines[k].rate])
          taxAmountIncludedInPrice == IF ~includesTax THEN 0 ELSE RoundFrac(calculatePriceTaxAmount(lineItem.unit_price, totalTaxRate, includesTax))
          lineSubtotal == (lineItem.unit_price - taxAmountIncludedInPrice) * lineItem.quantity - discountAmount
          taxTotal == SumSeq([k \in 1..Len(lines) |-> Round(lineSubtotal * lines[k].rate, Scale)])
      IN  IF ~isDefined(lineItem.tax_lines) \/ lines = <<>>
            THEN Throw(MissingTaxLinesOnRefund)
            ELSE Ok(lineSubtotal + taxTotal)

getLineItemRefund(lineItem, calculationContext, taxRate) ==
  IF refundMethod(taxRate) = "legacy"
    THEN getLineItemRefundLegacy(lineItem, calculationContext, Val(taxRate))
    ELSE
      LET includesTax == isFeatureEnabled /\ lineItem.includes_tax
          discountAmount == unitAmount(calculationContext, lineItem.id) * lineItem.quantity
          lines == Val(lineItem.tax_lines)
          totalTaxRate == SumSeq([k \in 1..Len(lines) |-> lines[k].rate])
          taxAmountIncludedInPrice == IF ~includesTax THEN 0 ELSE RoundFrac(calculatePriceTaxAmount(lineItem.unit_price, totalTaxRate, includesTax))
          lineSubtotal == (lineItem.unit_price - taxAmountIncludedInPrice) * lineItem.quantity - discountAmount
          taxTotal == SumSeq([k \in 1..Len(lines) |-> Round(lineSubtotal * lines[k].rate, Scale)])
      IN  IF ~isDefined(lineItem.tax_lines)
            THEN Throw(MissingTaxLinesOnRefund)
            ELSE Ok(lineSubtotal + taxTotal)

\* ------------------------------------------------------ gift-card totals
\* is_taxable is "true", "false" or "null" (not recorded); tax_rate may be null.
\* The multiplier of one transaction, as a percentage.
\* taxMultiplier falling back to the region's rate whether or not the region
\* taxes gift cards (line 497)
taxMultiplier_anyRegion(next, region) ==
  LET own == IF isDefined(next.tax_rate) THEN Val(next.tax_rate) ELSE 0
  IN  IF next.is_taxable = "null" /\ isDefined(region)
        THEN Val(region).tax_rate
        ELSE own

taxMultiplier(next, region) ==
  LET own == IF isDefined(next.tax_rate) THEN Val(next.tax_rate) ELSE 0
  IN  IF next.is_taxable = "null" /\ isDefined(region) /\ Val(region).gift_cards_taxable
        THEN Val(region).tax_rate
        ELSE own

getGiftCardTransactionsTotals(giftCardTransactions, region) ==
  LET n == Len(giftCardTransactions)
  IN  [tax_total |-> SumSeq([k \in 1..n |-> giftCardTransactions[k].amount * taxMultiplier(giftCardTransactions[k], region)]),
       total |-> SumSeq([k \in 1..n |-> Scale * giftCardTransactions[k].amount])]

\* ------------------------------------------------- shipping-method totals
hasFreeShipping(discounts) == isDefined(discounts) /\ "free_shipping" \in Val(discounts)

ShippingMethodTotals(shippingMethod, original_total, total, subtotal, original_tax_total, tax_total, tax_lines) == [original_tax_total |-> original_tax_total, original_total |-> original_total, price |-> shippingMethod.price, subtotal |-> subtotal, tax_lines |-> tax_lines, tax_total |-> tax_total, total |-> total]

\* getShippingMethodTotals without "totals.tax_total = 0" (line 651)
getShippingMethodTotals_freeKeepsTax(shippingMethod, includeTax, calculationContext, taxLines, discounts) ==
  LET price == shippingMethod.price
      tax_lines == IF isDefined(taxLines) THEN Val(taxLines) ELSE IF isDefined(shippingMethod.tax_lines) THEN Val(shippingMethod.tax_lines) ELSE <<>>
      includesTax == isFeatureEnabled /\ shippingMethod.includes_tax
      original_tax_total == calculate(<<>>, tax_lines, calculationContext)
      tax_total == original_tax_total
      subtotal == IF includesTax THEN price - tax_total ELSE price
      original_total == IF includesTax THEN price ELSE price + original_tax_total
      total == IF includesTax THEN price ELSE price + tax_total
  IN  IF includeTax /\ Len(tax_lines) = 0
        THEN Throw(MissingTaxLines)
        ELSE IF hasFreeShipping(discounts)
          THEN Ok(ShippingMethodTotals(shippingMethod, Scale * original_total, 0, 0, Scale * original_tax_total, Scale * tax_total, Some(tax_lines)))
          ELSE Ok(ShippingMethodTotals(shippingMethod, Scale * original_total, Scale * total, Scale * subtotal, Scale * original_tax_total, Scale * tax_total, Some(tax_lines)))

getShippingMethodTotals(shippingMethod, includeTax, calculationContext, taxLines, discounts) ==
  LET price == shippingMethod.price
      tax_lines == IF isDefined(taxLines) THEN Val(taxLines) ELSE IF isDefined(shippingMethod.tax_lines) THEN Val(shippingMethod.tax_lines) ELSE <<>>
      includesTax == isFeatureEnabled /\ shippingMethod.includes_tax
      original_tax_total == calculate(<<>>, tax_lines, calculationContext)
      tax_total == original_tax_total
      subtotal == IF includesTax THEN price - tax_total ELSE price
      original_total == IF includesTax THEN price ELSE price + original_tax_total
      total == IF includesTax THEN price ELSE price + tax_total
  IN  IF includeTax /\ Len(tax_lines) = 0
        THEN Throw(MissingTaxLines)
        ELSE IF hasFreeShipping(discounts)
          THEN Ok(ShippingMethodTotals(shippingMethod, Scale * original_total, 0, 0, Scale * original_tax_total, 0, Some(tax_lines)))
          ELSE Ok(ShippingMethodTotals(shippingMethod, Scale * original_total, Scale * total, Scale * subtotal, Scale * original_tax_total, Scale * tax_total, Some(tax_lines)))

\* taxRate is None when the caller passes no taxRate option: taxRate / 100 is NaN.
getShippingMethodTotalsLegacy(shippingMethod, calculationContext, discounts, taxRate) ==
  LET price == shippingMethod.price
      tax == IF isDefined(taxRate) THEN Scale * Round(price * Val(taxRate), Scale) ELSE NaN
  IN  Ok(ShippingMethodTotals(shippingMethod, Scale * price, Scale * price, Scale * price, tax, tax, shippingMethod.tax_lines))

\* ------------------------------------------------------ batch entry points
\* JavaScript truthiness of taxRate: undefined, null and 0 are falsy.
truthy(taxRate) == isDefined(taxRate) /\ Val(taxRate) # 0

\* const calculationMethod = taxRate ? ...Legacy : ...
batchMethod(taxRate) == IF truthy(taxRate) THEN "legacy" ELSE "current"

\* lineItemsTaxLinesMap[item.id]
lookup(map, id) == IF id \in DOMAIN map THEN map[id] ELSE None

\* the options getLineItemsTotals hands to calculationMethod for one item
lineItemCall(c, map, method, item) ==
  LET lineItemAllocation == unitAmount(c.calculationContext, item.id)
  IN  IF method = "legacy"
        THEN getLineItemTotalsLegacy(item, Val(c.taxRate), lineItemAllocation, c.calculationContext)
        ELSE getLineItemTotals(item, FALSE, lineItemAllocation, lookup(map, item.id), c.calculationContext)

\* the options getShippingMethodsTotals hands to calculationMethod for one method
shippingMethodCall(c, map, method, shippingMethod) ==
  IF method = "legacy"
    THEN getShippingMethodTotalsLegacy(shippingMethod, c.calculationContext, c.discounts, None)
    ELSE getShippingMethodTotals(shippingMethod, c.includeTax, c.calculationContext, lookup(map, shippingMethod.id), c.discounts)

\* ------------------------------------------------------------ the service
Init ==
  /\ flag \in BOOLEAN
  /\ strategy \in [BOOLEAN -> TaxAmounts]
  /\ pc = "idle"
  /\ call = [op |-> "none"]
  /\ calculationMethod = "none"
  /\ taxLinesMap = <<>>
  /\ idx = 0
  /\ totalsAcc = <<>>
  /\ providerCalls = 0
  /\ result = NoResult

\* A per-entity call runs to its result (or its error) in one step.
Single(c, method, r) ==
  /\ pc' = "done"
  /\ call' = c
  /\ calculationMethod' = method
  /\ result' = r
  /\ UNCHANGED <<flag, strategy, taxLinesMap, idx, totalsAcc, providerCalls>>

\* The caller takes the result; the service keeps nothing between calls.
Return ==
  /\ pc = "done"
  /\ pc' = "idle"
  /\ call' = [op |-> "none"]
  /\ calculationMethod' = "none"
  /\ result' = NoResult
  /\ taxLinesMap' = <<>>
  /\ idx' = 0
  /\ totalsAcc' = <<>>
  /\ providerCalls' = 0
  /\ UNCHANGED <<flag, strategy>>

GetLineItemTotals ==
  /\ pc = "idle"
  /\ \E item \in LineItems(1), includeTax \in BOOLEAN, a \in DiscountUnitAmounts, taxLines \in ProviderTaxLines :
       LET ctx == Context({1}, a)
       IN  Single([calculationContext |-> ctx, includeTax |-> includeTax, item |-> item, lineItemAllocation |-> unitAmount(ctx, 1), op |-> "getLineItemTotals", taxLines |-> taxLines],
                  "current", getLineItemTotals(item, includeTax, unitAmount(ctx, 1), taxLines, ctx))

GetLineItemTotalsLegacy ==
  /\ pc = "idle"
  /\ \E item \in LineItems(1), taxRate \in TaxRates, a \in DiscountUnitAmounts :
       LET ctx == Context({1}, a)
       IN  Single([calculationContext |-> ctx, item |-> item, lineItemAllocation |-> unitAmount(ctx, 1), op |-> "getLineItemTotalsLegacy", taxRate |-> taxRate],
                  "legacy", getLineItemTotalsLegacy(item, taxRate, unitAmount(ctx, 1), ctx))

GetLineItemRefund ==
  /\ pc = "idle"
  /\ \E lineItem \in LineItems(1), taxRate \in OptTaxRates, a \in DiscountUnitAmounts :
       LET ctx == Context({1}, a)
       IN  Single([calculationContext |-> ctx, lineItem |-> lineItem, op |-> "getLineItemRefund", taxRate |-> taxRate],
                  refundMethod(taxRate), getLineItemRefund(lineItem, ctx, taxRate))

GetGiftCardTransactionsTotals ==
  /\ pc = "idle"
  /\ \E n \in 0..MaxTransactions, region \in OptRegions :
       \E giftCardTransactions \in [1..n -> GiftCardTransactions] :
         Single([giftCardTransactions |-> giftCardTransactions, op |-> "getGiftCardTransactionsTotals", region |-> region],
                "none", Ok(getGiftCardTransactionsTotals(giftCardTransactions, region)))

GetShippingMethodTotals ==
  /\ pc = "idle"
  /\ \E shippingMethod \in ShippingMethods(1), includeTax \in BOOLEAN, a \in DiscountUnitAmounts, taxLines \in ProviderTaxLines, discounts \in DiscountSets :
       LET ctx == Context({1}, a)
       IN  Single([calculationContext |-> ctx, discounts |-> discounts, includeTax |-> includeTax, op |-> "getShippingMethodTotals", shippingMethod |-> shippingMethod, taxLines |-> taxLines],
                  "current", getShippingMethodTotals(shippingMethod, includeTax, ctx, taxLines, discounts))

GetShippingMethodTotalsLegacy ==
  /\ pc = "idle"
  /\ \E shippingMethod \in ShippingMethods(1), taxRate \in TaxRates, a \in DiscountUnitAmounts, discounts \in DiscountSets :
       LET ctx == Context({1}, a)
       IN  Single([calculationContext |-> ctx, discounts |-> discounts, op |-> "getShippingMethodTotalsLegacy", shippingMethod |-> shippingMethod, taxRate |-> Some(taxRate)],
                  "legacy", getShippingMethodTotalsLegacy(shippingMethod, ctx, discounts, Some(taxRate)))

\* ---- getLineItemsTotals / getShippingMethodsTotals: one step per await
\* Lines 150-164 / 538-554: up to the await of the tax line provider, if any.
BatchStart(c, entities) ==
  /\ call' = c
  /\ idx' = 0
  /\ totalsAcc' = <<>>
  /\ providerCalls' = 0
  /\ result' = NoResult
  /\ IF ~truthy(c.taxRate) /\ c.includeTax /\ ~c.useExistingTaxLines /\ Len(entities) > 0
       THEN /\ pc' = "fetch"
            /\ taxLinesMap' = <<>>
            /\ calculationMethod' = "none"
       ELSE /\ pc' = "loop"
            /\ taxLinesMap' = IF ~truthy(c.taxRate) /\ c.includeTax /\ c.useExistingTaxLines
                                THEN [i \in 1..Len(entities) |-> IF isDefined(entities[i].tax_lines) THEN entities[i].tax_lines ELSE Some(<<>>)]
                                ELSE <<>>
            /\ calculationMethod' = batchMethod(c.taxRate)
  /\ UNCHANGED <<flag, strategy>>

GetLineItemsTotals ==
  /\ pc = "idle"
  /\ \E n \in 0..MaxItems, template \in BatchLineItems, includeTax \in BOOLEAN, taxRate \in OptTaxRates, useExistingTaxLines \in BOOLEAN, a \in DiscountUnitAmounts :
       LET items == [i \in 1..n |-> [template EXCEPT !.id = i]]
       IN  BatchStart([calculationContext |-> Context(1..n, a), includeTax |-> includeTax, items |-> items, op |-> "getLineItemsTotals", taxRate |-> taxRate, useExistingTaxLines |-> useExistingTaxLines], items)

GetShippingMethodsTotals ==
  /\ pc = "idle"
  /\ \E n \in 0..MaxItems, template \in BatchShippingMethods, includeTax \in BOOLEAN, taxRate \in OptTaxRates, useExistingTaxLines \in BOOLEAN, discounts \in DiscountSets :
       LET shippingMethods == [i \in 1..n |-> [template EXCEPT !.id = i]]
       IN  BatchStart([calculationContext |-> Context({}, 0), discounts |-> discounts, includeTax |-> includeTax, op |-> "getShippingMethodsTotals", shippingMethods |-> shippingMethods, taxRate |-> taxRate, useExistingTaxLines |-> useExistingTaxLines], shippingMethods)

entitiesOf(c) == IF c.op = "getLineItemsTotals" THEN c.items ELSE c.shippingMethods

\* taxProviderService_.getTaxLinesMap answers: any map from entity id to tax lines,
\* an id possibly missing from it (None).
GetTaxLinesMap ==
  /\ pc = "fetch"
  /\ \E map \in [1..Len(entitiesOf(call)) -> ProviderTaxLines] :
       taxLinesMap' = map
  /\ providerCalls' = providerCalls + 1
  /\ calculationMethod' = batchMethod(call.taxRate)
  /\ pc' = "loop"
  /\ UNCHANGED <<flag, strategy, call, idx, totalsAcc, result>>

\* One turn of the for loop: await calculationMethod(entity, ...); an error ends the call.
BatchEntity ==
  /\ pc = "loop"
  /\ idx < Len(entitiesOf(call))
  /\ LET entity == entitiesOf(call)[idx + 1]
         r == IF call.op = "getLineItemsTotals"
                THEN lineItemCall(call, taxLinesMap, calculationMethod, entity)
                ELSE shippingMethodCall(call, taxLinesMap, calculationMethod, entity)
     IN  IF r.status = "error"
           THEN /\ result' = r
                /\ pc' = "done"
                /\ UNCHANGED <<idx, totalsAcc>>
           ELSE /\ totalsAcc' = Append(totalsAcc, r.value)
                /\ idx' = idx + 1
                /\ UNCHANGED <<result, pc>>
  /\ UNCHANGED <<flag, strategy, call, calculationMethod, taxLinesMap, providerCalls>>

\* return itemsTotals / shippingMethodsTotals (entity id -> totals)
BatchReturn ==
  /\ pc = "loop"
  /\ idx = Len(entitiesOf(call))
  /\ result' = Ok(totalsAcc)
  /\ pc' = "done"
  /\ UNCHANGED <<flag, strategy, call, calculationMethod, taxLinesMap, idx, totalsAcc, providerCalls>>

Next ==
  \/ GetLineItemTotals
  \/ GetLineItemTotalsLegacy
  \/ GetLineItemRefund
  \/ GetGiftCardTransactionsTotals
  \/ GetShippingMethodTotals
  \/ GetShippingMethodTotalsLegacy
  \/ GetLineItemsTotals
  \/ GetShippingMethodsTotals
  \/ GetTaxLinesMap
  \/ BatchEntity
  \/ BatchReturn
  \/ Return

Spec == Init /\ [][Next]_vars

\* ------------------------------------------------------------ the records
\* The totals records the call under way has produced so far, each with the
\* variant that produced it.
OkSingle(op) == pc = "done" /\ call.op = op /\ result.status = "ok"

LineItemRecords(method) ==
  IF call.op = "getLineItemsTotals" /\ calculationMethod = method
    THEN {totalsAcc[i] : i \in 1..Len(totalsAcc)}
    ELSE IF OkSingle(IF method = "legacy" THEN "getLineItemTotalsLegacy" ELSE "getLineItemTotals")
      THEN {result.value}
      ELSE {}

ShippingMethodRecords(method) ==
  IF call.op = "getShippingMethodsTotals" /\ calculationMethod = method
    THEN {totalsAcc[i] : i \in 1..Len(totalsAcc)}
    ELSE IF OkSingle(IF method = "legacy" THEN "getShippingMethodTotalsLegacy" ELSE "getShippingMethodTotals")
      THEN {result.value}
      ELSE {}

AllRecords == LineItemRecords("current") \cup LineItemRecords("legacy") \cup ShippingMethodRecords("current") \cup ShippingMethodRecords("legacy")

\* ------------------------------------------------------------------ claims
\* C1: every totals record returned by getLineItemTotals, getLineItemTotalsLegacy,
\* getShippingMethodTotals or getShippingMethodTotalsLegacy (directly or through a
\* batch entry point) has original_total = subtotal + original_tax_total.
C1_OriginalTotalRoundTrip ==
  \A rec \in AllRecords : JsEq(rec.original_total, JsAdd(rec.subtotal, rec.original_tax_total))

\* C2 as stated: whenever shipping-method totals are returned by
\* getShippingMethodTotals, or by getShippingMethodsTotals on whichever path it
\* selects, and the discount set holds a FREE_SHIPPING discount, the record has
\* total = 0, subtotal = 0 and tax_total = 0.
FreeShippingZero(rec) == JsEq(rec.total, 0) /\ JsEq(rec.subtotal, 0) /\ JsEq(rec.tax_total, 0)

C2_FreeShippingZeroAnyPath ==
  /\ OkSingle("getShippingMethodTotals") /\ hasFreeShipping(call.discounts) => FreeShippingZero(result.value)
  /\ call.op = "getShippingMethodsTotals" /\ hasFreeShipping(call.discounts) =>
       \A i \in 1..Len(totalsAcc) : FreeShippingZero(totalsAcc[i])

\* C2 amended: the record is zeroed whenever getShippingMethodTotals produced it
\* (called directly, or by getShippingMethodsTotals on the current path); the
\* legacy variant does not look at the discounts.
C2_FreeShippingZeroCurrentPath ==
  \A rec \in ShippingMethodRecords("current") : hasFreeShipping(call.discounts) => FreeShippingZero(rec)

\* a priced method with tax lines and a taxing strategy, made free by the discount,
\* computed through the batch entry point
C2_Witness ==
  /\ call.op = "getShippingMethodsTotals"
  /\ calculationMethod = "current"
  /\ hasFreeShipping(call.discounts)
  /\ Len(totalsAcc) > 0
  /\ totalsAcc[1].price > 0
  /\ totalsAcc[1].original_tax_total > 0
  /\ totalsAcc[1].tax_lines # Some(<<>>)

\* C3: on the current path, a getLineItemTotals record has
\* total = subtotal - discount_total + tax_total and a getShippingMethodTotals
\* record has total = subtotal + tax_total.
C3_CurrentTotalIdentity ==
  /\ \A rec \in LineItemRecords("current") : rec.total = rec.subtotal - rec.discount_total + rec.tax_total
  /\ \A rec \in ShippingMethodRecords("current") : rec.total = rec.subtotal + rec.tax_total

\* a tax-inclusive item under the enabled flag, discounted and taxed
C3_Witness ==
  /\ OkSingle("getLineItemTotals")
  /\ flag /\ call.item.includes_tax
  /\ result.value.discount_total > 0
  /\ result.value.tax_total > 0
  /\ result.value.original_tax_total > 0
  /\ result.value.total = result.value.subtotal - result.value.discount_total + result.value.tax_total

\* no tax lines: neither an override nor lines of the entity's own
NoLines(o) == ~isDefined(o) \/ Val(o) = <<>>

\* C4: a line item with no discount allocation, no tax lines and no tax-line
\* override gets total = unit_price * quantity and tax_total = 0 from
\* getLineItemTotals, whatever includes_tax and the feature flag are.
C4_PlainItemTotal ==
  OkSingle("getLineItemTotals") /\ call.lineItemAllocation = 0 /\ ~isDefined(call.taxLines) /\ NoLines(call.item.tax_lines) =>
    /\ result.value.total = Scale * (call.item.unit_price * call.item.quantity)
    /\ result.value.tax_total = 0

\* C5: with includeTax true, no flat taxRate and no tax lines available for a line
\* item, the call fails with the missing-tax-lines error and returns no totals
\* record: called directly, and through getLineItemsTotals.
C5_MissingTaxLinesFails ==
  /\ pc = "done" /\ call.op = "getLineItemTotals" /\ call.includeTax /\ NoLines(call.taxLines) /\ NoLines(call.item.tax_lines) =>
       result = Throw(MissingTaxLines)
  /\ call.op = "getLineItemsTotals" /\ call.includeTax /\ ~isDefined(call.taxRate) /\ pc \in {"loop", "done"} =>
       \A i \in 1..Len(totalsAcc) : ~(NoLines(lookup(taxLinesMap, i)) /\ NoLines(call.items[i].tax_lines))

\* C6: on the current path (no taxRate) getLineItemRefund raises the
\* missing-tax-lines-on-refund error exactly when tax_lines is undefined; with
\* tax_lines defined and empty it returns unit_price * quantity minus the discount.
C6_RefundMissingTaxLines ==
  pc = "done" /\ call.op = "getLineItemRefund" /\ ~isDefined(call.taxRate) =>
    /\ result.status = "error" <=> ~isDefined(call.lineItem.tax_lines)
    /\ result.status = "error" => result.error = MissingTaxLinesOnRefund
    /\ call.lineItem.tax_lines = Some(<<>>) =>
         result = Ok(call.lineItem.unit_price * call.lineItem.quantity - unitAmount(call.calculationContext, call.lineItem.id) * call.lineItem.quantity)

\* the error, raised for an item that is not tax inclusive
C6_Witness ==
  /\ pc = "done" /\ call.op = "getLineItemRefund" /\ ~isDefined(call.taxRate)
  /\ ~call.lineItem.includes_tax
  /\ ~isDefined(call.lineItem.tax_lines)
  /\ result = Throw(MissingTaxLinesOnRefund)

\* C7 as stated: per transaction, is_taxable = false contributes 0 whatever the
\* region and the transaction's tax_rate; is_taxable unset contributes
\* amount * region.tax_rate / 100 when the region taxes gift cards; total is the
\* sum of the amounts. (Any other transaction: its own recorded rate.)
RegionTaxes(region) == isDefined(region) /\ Val(region).gift_cards_taxable
OwnRate(t) == IF isDefined(t.tax_rate) THEN Val(t.tax_rate) ELSE 0

StatedContribution(t, region) ==
  IF t.is_taxable = "false" THEN 0
  ELSE IF t.is_taxable = "null" /\ RegionTaxes(region) THEN t.amount * Val(region).tax_rate
  ELSE t.amount * OwnRate(t)

C7_NotTaxableContributesZero ==
  OkSingle("getGiftCardTransactionsTotals") =>
    LET txs == call.giftCardTransactions
    IN  /\ result.value.tax_total = SumSeq([k \in 1..Len(txs) |-> StatedContribution(txs[k], call.region)])
        /\ result.value.total = SumSeq([k \in 1..Len(txs) |-> Scale * txs[k].amount])

\* C7 amended: is_taxable = false contributes amount * (the transaction's own
\* tax_rate) / 100, which is 0 only when no rate is recorded on it.
AmendedContribution(t, region) ==
  IF t.is_taxable = "null" /\ RegionTaxes(region) THEN t.amount * Val(region).tax_rate
  ELSE t.amount * OwnRate(t)

C7_NotTaxableContributesOwnRate ==
  OkSingle("getGiftCardTransactionsTotals") =>
    LET txs == call.giftCardTransactions
    IN  /\ result.value.tax_total = SumSeq([k \in 1..Len(txs) |-> AmendedContribution(txs[k], call.region)])
        /\ result.value.total = SumSeq([k \in 1..Len(txs) |-> Scale * txs[k].amount])

\* amount 1000 unset in a region taxing gift cards at 10 (100), next to a
\* transaction that is not taxable and records a rate
C7_Witness ==
  /\ OkSingle("getGiftCardTransactionsTotals")
  /\ RegionTaxes(call.region)
  /\ \E k \in 1..Len(call.giftCardTransactions) :
       /\ call.giftCardTransactions[k].is_taxable = "null"
       /\ call.giftCardTransactions[k].amount = 1000
  /\ \E k \in 1..Len(call.giftCardTransactions) :
       /\ call.giftCardTransactions[k].is_taxable = "false"
       /\ isDefined(call.giftCardTransactions[k].tax_rate)
  /\ result.value.tax_total > Scale * 100

\* C8: getShippingMethodsTotals called with a non-zero flat taxRate r returns
\* records with tax_total = original_tax_total = round(price * r / 100).
C8_LegacyShippingTax ==
  call.op = "getShippingMethodsTotals" /\ truthy(call.taxRate) =>
    \A i \in 1..Len(totalsAcc) :
      /\ JsEq(totalsAcc[i].tax_total, Scale * Round(totalsAcc[i].price * Val(call.taxRate), Scale))
      /\ JsEq(totalsAcc[i].original_tax_total, totalsAcc[i].tax_total)

\* C9: getLineItemsTotals, getShippingMethodsTotals and getLineItemRefund use the
\* legacy variant for every supplied taxRate, 0 included, and the current variant
\* exactly when taxRate is absent.
C9_DispatchOnPresence ==
  \/ call.op \in {"getLineItemsTotals", "getShippingMethodsTotals"} /\ pc \in {"loop", "done"}
  \/ call.op = "getLineItemRefund" /\ pc = "done"
  => calculationMethod = IF isDefined(call.taxRate) THEN "legacy" ELSE "current"

\* C10: a getLineItemTotalsLegacy record has
\* total = subtotal - discount_total + tax_total,
\* tax_total = (subtotal - discount_total) * taxRate / 100 and
\* original_tax_total = subtotal * taxRate / 100.
LegacyTaxRate == IF call.op = "getLineItemsTotals" THEN Val(call.taxRate) ELSE call.taxRate

C10_LegacyLineItemTotals ==
  \A rec \in LineItemRecords("legacy") :
    /\ rec.total = rec.subtotal - rec.discount_total + rec.tax_total
    /\ Scale * rec.tax_total = (rec.subtotal - rec.discount_total) * LegacyTaxRate
    /\ Scale * rec.original_tax_total = rec.subtotal * LegacyTaxRate

\* ------------------------------------------------------------------- C11
BatchOps == {"getLineItemsTotals", "getShippingMethodsTotals"}

\* the tax line provider is asked once at most, whatever the number of entities
ProviderAtMostOnce == providerCalls <= 1

\* while the provider is awaited, and when it answers, no per-entity totals
\* have been computed yet
ProviderBeforeEntities == pc = "fetch" => idx = 0 /\ totalsAcc = <<>> /\ providerCalls = 0

\* the provider was asked only under the stated conditions
ProviderOnlyWhenStated ==
  providerCalls > 0 =>
    /\ call.op \in BatchOps
    /\ ~isDefined(call.taxRate)
    /\ call.includeTax
    /\ ~call.useExistingTaxLines
    /\ Len(entitiesOf(call)) > 0

\* the same with "no flat taxRate" read as the code reads it: no taxRate, or 0
ProviderOnlyWhenFalsyRate ==
  providerCalls > 0 =>
    /\ call.op \in BatchOps
    /\ ~truthy(call.taxRate)
    /\ call.includeTax
    /\ ~call.useExistingTaxLines
    /\ Len(entitiesOf(call)) > 0

\* C11: in one getLineItemsTotals or getShippingMethodsTotals call the tax line
\* provider (getTaxLinesMap) is invoked at most once, that invocation completes
\* before the first per-entity totals computation starts, and it is invoked
\* only when no flat taxRate is supplied, includeTax is true,
\* useExistingTaxLines is false and the batch is not empty.
C11_ProviderOncePerBatch ==
  /\ ProviderAtMostOnce
  /\ ProviderBeforeEntities
  /\ ProviderOnlyWhenStated

\* ------------------------------------------------------------------- C12
FlagGatedOps == {"getLineItemTotals", "getLineItemTotalsLegacy", "getLineItemRefund", "getShippingMethodTotals"}

\* the item or method of a per-entity call
CallEntity(c) ==
  CASE c.op \in {"getLineItemTotals", "getLineItemTotalsLegacy"} -> c.item
    [] c.op = "getLineItemRefund" -> c.lineItem
    [] c.op = "getShippingMethodTotals" -> c.shippingMethod

\* the call c made again on entity e, every other input unchanged
SameCallOn(c, e) ==
  CASE c.op = "getLineItemTotals" -> getLineItemTotals(e, c.includeTax, c.lineItemAllocation, c.taxLines, c.calculationContext)
    [] c.op = "getLineItemTotalsLegacy" -> getLineItemTotalsLegacy(e, c.taxRate, c.lineItemAllocation, c.calculationContext)
    [] c.op = "getLineItemRefund" -> getLineItemRefund(e, c.calculationContext, c.taxRate)
    [] c.op = "getShippingMethodTotals" -> getShippingMethodTotals(e, c.includeTax, c.calculationContext, c.taxLines, c.discounts)

OtherIncludesTax(e) == [e EXCEPT !.includes_tax = ~e.includes_tax]

\* the result of the call under way is the result of the same call with the
\* other value of includes_tax
IncludesTaxIgnored == result = SameCallOn(call, OtherIncludesTax(CallEntity(call)))

\* C12: with the tax-inclusive-pricing flag disabled, two calls of the same
\* operation (getLineItemTotals, getLineItemTotalsLegacy, getLineItemRefund and
\* through it getLineItemRefundLegacy, getShippingMethodTotals) whose inputs
\* differ only in the entity's includes_tax return identical results.
C12_FlagGatesIncludesTax ==
  (pc = "done" /\ ~flag /\ call.op \in FlagGatedOps) => IncludesTaxIgnored

\* the same for every operation but getLineItemTotalsLegacy
C12_FlagGatesAllButLegacyTotals ==
  (pc = "done" /\ ~flag /\ call.op \in FlagGatedOps \ {"getLineItemTotalsLegacy"}) => IncludesTaxIgnored

====
